---- MODULE Spec2Model ----
(***************************************************************************)
(* A model of the kvs engine (src/src/lib.rs): a bitcask-style store whose *)
(* state is an in-memory index of key -> byte offset, an append-only log   *)
(* of JSON records (current.log), and a counter of obsolete entries that   *)
(* triggers compaction through compact.log.                                *)
(*                                                                         *)
(* Files are sequences of bytes (one-character strings); a record is the   *)
(* text serde_json writes for the Command enum, and a log pointer is the   *)
(* 0-based byte offset of a record's first byte, as in the source.         *)
(*                                                                         *)
(* Three specifications: Spec, the calls of the API and the runs of the    *)
(* kvs binary (src/src/bin/kvs.rs) without failures; SpecFault, the calls  *)
(* of the API with I/O errors and crashes; SpecReplay, open on a           *)
(* current.log that holds any sequence of records.                         *)
(***************************************************************************)
EXTENDS Naturals, Sequences, FiniteSets, TLC

(***************************************************************************)
(* Bounds of the model.                                                    *)
(***************************************************************************)
\* should_compact() compares with 1000 (lib.rs:100); the model scales the
\* threshold down so that compaction happens within the bounds.
THRESHOLD == 2
\* How many injected failures (I/O errors, crashes) one behaviour may hold.
MaxFaults == 1
\* A failed compaction leaves the counter at or above the threshold; calls
\* are explored until it is this far above it.
MaxOverrun == 1

\* How many records a log that the engine did not write holds at most.
MaxRecords == 3

\* Keys and values of different lengths, so that records differ in length
\* and offsets are not multiples of one record size.
Keys == {<<"a">>, <<"b", "c">>}
Values == {<<"1">>, <<"2", "3">>}
NoStr == <<>>

(***************************************************************************)
(* Command and its serialized form (serde_json, externally tagged enum).   *)
(***************************************************************************)
SetCmd(k, v) == [type |-> "Set", key |-> k, value |-> v]
RemoveCmd(k) == [type |-> "Remove", key |-> k, value |-> NoStr]

Quote == "\""
\* {"Set":{"key":"
SetOpen == <<"{", Quote, "S", "e", "t", Quote, ":", "{", Quote, "k", "e", "y", Quote, ":", Quote>>
\* ","value":"
SetMid == <<Quote, ",", Quote, "v", "a", "l", "u", "e", Quote, ":", Quote>>
\* {"Remove":{"key":"
RemoveOpen == <<"{", Quote, "R", "e", "m", "o", "v", "e", Quote, ":", "{", Quote, "k", "e", "y", Quote, ":", Quote>>
\* "}}
RecClose == <<Quote, "}", "}">>

\* serde_json::to_writer(&cmd): the bytes of one record.
Serialize(cmd) ==
    IF cmd.type = "Set"
    THEN SetOpen \o cmd.key \o SetMid \o cmd.value \o RecClose
    ELSE RemoveOpen \o cmd.key \o RecClose

\* Whether the bytes at 0-based offset pos start with pat.
HasPrefix(bytes, pos, pat) ==
    /\ pos + Len(pat) <= Len(bytes)
    /\ \A i \in 1..Len(pat) : bytes[pos + i] = pat[i]

\* The 0-based offset of the first quote at or after pos; Len(bytes) if none.
RECURSIVE FindQuote(_, _)
FindQuote(bytes, pos) ==
    IF pos >= Len(bytes) THEN Len(bytes)
    ELSE IF bytes[pos + 1] = Quote THEN pos
    ELSE FindQuote(bytes, pos + 1)

\* bytes[from..to) as a sequence, 0-based, to exclusive.
Slice(bytes, from, to) == [i \in 1..(to - from) |-> bytes[from + i]]

DecodeErr == [status |-> "err", cmd |-> RemoveCmd(NoStr), next |-> 0]
DecodeEof == [status |-> "eof", cmd |-> RemoveCmd(NoStr), next |-> 0]

\* The string that starts at pos and the pattern that has to follow its
\* closing quote; "next" is the offset after the pattern.
StringThen(bytes, pos, pat) ==
    LET q == FindQuote(bytes, pos)
    IN  IF HasPrefix(bytes, q, pat)
        THEN [ok |-> TRUE, str |-> Slice(bytes, pos, q), next |-> q + Len(pat)]
        ELSE [ok |-> FALSE, str |-> NoStr, next |-> 0]

\* One step of serde_json's StreamDeserializer<Command> at byte offset pos:
\* end of input gives no item, a complete record gives the command and the
\* offset after it, anything else (a cut record, a position inside a
\* record) is a decoding error.
Decode(bytes, pos) ==
    IF pos >= Len(bytes) THEN DecodeEof
    ELSE IF HasPrefix(bytes, pos, SetOpen) THEN
        LET k == StringThen(bytes, pos + Len(SetOpen), SetMid)
        IN  IF ~k.ok THEN DecodeErr
            ELSE LET v == StringThen(bytes, k.next, RecClose)
                 IN  IF ~v.ok THEN DecodeErr
                     ELSE [status |-> "ok", cmd |-> SetCmd(k.str, v.str), next |-> v.next]
    ELSE IF HasPrefix(bytes, pos, RemoveOpen) THEN
        LET k == StringThen(bytes, pos + Len(RemoveOpen), RecClose)
        IN  IF ~k.ok THEN DecodeErr
            ELSE [status |-> "ok", cmd |-> RemoveCmd(k.str), next |-> k.next]
    ELSE DecodeErr

(***************************************************************************)
(* The state: the files of the directory and the engine over them.         *)
(***************************************************************************)
VARIABLES
    current_log,       \* dir/current.log: [exists, bytes]
    compact_log,       \* dir/compact.log: [exists, bytes]
    state,             \* "Closed" or "Open": whether a KvStore value exists
    in_memory_index,   \* KvStore.in_memory_index: key -> LogPointer
    log,               \* KvStore.log: the open file handle and its position
    obsolete_entries,  \* KvStore.obsolete_entries
    result,            \* the last call and what it returned
    faults             \* the failures injected so far, in order

vars == <<current_log, compact_log, state, in_memory_index, log,
          obsolete_entries, result, faults>>

NoFile == [exists |-> FALSE, bytes |-> <<>>]
File(bytes) == [exists |-> TRUE, bytes |-> bytes]

\* A handle stays on its file when the name current.log is given to another
\* file: "linked" says the handle's file is the one named current.log,
\* otherwise "bytes" are the contents of the unlinked file it still holds.
\* "pos" is the handle's file position, <<p>>; it is <<>> after a read in
\* which the decoder failed, which leaves it wherever the decoder stopped
\* (every read and every append seeks before it uses the position).
LinkedLog == [linked |-> TRUE, bytes |-> <<>>, pos |-> <<0>>]
HandleBytes(lg, cur) == IF lg.linked THEN cur.bytes ELSE lg.bytes

EmptyIndex == [k \in {} |-> 0]
\* Delete that forgets the key's entry.
DeleteKept(idx, k) == idx
Insert(idx, k, p) == [x \in DOMAIN idx \cup {k} |-> IF x = k THEN p ELSE idx[x]]
Delete(idx, k) == [x \in DOMAIN idx \ {k} |-> idx[x]]

\* Log::read on what the decoder gave at the pointer: the record, or
\* LogFileCorrupted for no item, or the decoder's error.
ReadResult(d) ==
    IF d.status = "ok" THEN [ret |-> "Ok", cmd |-> d.cmd]
    ELSE IF d.status = "eof" THEN [ret |-> "LogFileCorrupted", cmd |-> d.cmd]
    ELSE [ret |-> "Serde", cmd |-> d.cmd]

\* Log::read: seek to the pointer and decode one record there.
LogRead(bytes, ptr) == ReadResult(Decode(bytes, ptr))

\* Where Log::read leaves the file position: behind the record it decoded,
\* or at the pointer when there was nothing to read there.
ReadPos(d, ptr) ==
    IF d.status = "ok" THEN <<d.next>>
    ELSE IF d.status = "eof" THEN <<ptr>>
    ELSE <<>>
SeekRead(lg, bytes, ptr) == [lg EXCEPT !.pos = ReadPos(Decode(bytes, ptr), ptr)]

\* AppendPos taking the handle's position as it is, without seek(End(0)).
AppendPosAtPosition(lg, cur) == IF lg.pos = <<>> THEN 0 ELSE lg.pos[1]

\* AppendPos without the seek to the end: the position of a fresh handle.
AppendPosNoSeek(lg, cur) == 0

\* Log::append_command on the handle lg: the position is the end of the
\* handle's file, the record is written there.
AppendPos(lg, cur) == Len(HandleBytes(lg, cur))
AppendBytes(lg, cur, bytes) ==
    IF lg.linked
    THEN [log |-> [lg EXCEPT !.pos = <<Len(cur.bytes \o bytes)>>],
          current |-> File(cur.bytes \o bytes)]
    ELSE [log |-> [lg EXCEPT !.bytes = @ \o bytes, !.pos = <<Len(lg.bytes \o bytes)>>],
          current |-> cur]

\* The match of KvStore::get on what Log::read returned.
GetResult(r) ==
    IF r.ret # "Ok" THEN [ret |-> r.ret, some |-> FALSE, value |-> NoStr]
    ELSE IF r.cmd.type = "Set"
         THEN [ret |-> "Ok", some |-> TRUE, value |-> r.cmd.value]
         ELSE [ret |-> "LogFileCorrupted", some |-> FALSE, value |-> NoStr]

\* KvStore::get as a function of the engine's state.
GetOf(idx, bytes, k) ==
    IF k \notin DOMAIN idx THEN [ret |-> "Ok", some |-> FALSE, value |-> NoStr]
    ELSE GetResult(LogRead(bytes, idx[k]))

\* get(k) on the engine as it is now.
Get(k) == GetOf(in_memory_index, HandleBytes(log, current_log), k)

\* The loop of KvStore::open over Log::replay, from byte offset pos with
\* the index and the counter built so far.
RECURSIVE ReplayFrom(_, _, _, _)
\* ReplayItem taking the offset after the record was read, not before.
ReplayItemOffsetAfter(d, bytes, pos, idx, obs) ==
    IF d.status = "eof" THEN [ret |-> "Ok", index |-> idx, obsolete |-> obs]
    ELSE IF d.status = "err" THEN [ret |-> "Serde", index |-> idx, obsolete |-> obs]
    ELSE IF d.cmd.type = "Set"
         THEN ReplayFrom(bytes, d.next, Insert(idx, d.cmd.key, d.next),
                         IF d.cmd.key \in DOMAIN idx THEN obs + 1 ELSE obs)
    ELSE IF d.cmd.key \in DOMAIN idx
         THEN ReplayFrom(bytes, d.next, Delete(idx, d.cmd.key), obs + 1)
    ELSE [ret |-> "KeyNotFound", index |-> idx, obsolete |-> obs]

\* ReplayItem that skips the Remove of a key it does not hold.
ReplayItemSkipsAbsentRemove(d, bytes, pos, idx, obs) ==
    IF d.status = "eof" THEN [ret |-> "Ok", index |-> idx, obsolete |-> obs]
    ELSE IF d.status = "err" THEN [ret |-> "Serde", index |-> idx, obsolete |-> obs]
    ELSE IF d.cmd.type = "Set"
         THEN ReplayFrom(bytes, d.next, Insert(idx, d.cmd.key, pos),
                         IF d.cmd.key \in DOMAIN idx THEN obs + 1 ELSE obs)
    ELSE IF d.cmd.key \in DOMAIN idx
         THEN ReplayFrom(bytes, d.next, Delete(idx, d.cmd.key), obs + 1)
    ELSE ReplayFrom(bytes, d.next, idx, obs)

\* ReplayItem counting every Set, also the first Set of a key.
ReplayItemCountsEverySet(d, bytes, pos, idx, obs) ==
    IF d.status = "eof" THEN [ret |-> "Ok", index |-> idx, obsolete |-> obs]
    ELSE IF d.status = "err" THEN [ret |-> "Serde", index |-> idx, obsolete |-> obs]
    ELSE IF d.cmd.type = "Set"
         THEN ReplayFrom(bytes, d.next, Insert(idx, d.cmd.key, pos), obs + 1)
    ELSE IF d.cmd.key \in DOMAIN idx
         THEN ReplayFrom(bytes, d.next, Delete(idx, d.cmd.key), obs + 1)
    ELSE [ret |-> "KeyNotFound", index |-> idx, obsolete |-> obs]

\* The body of the loop for the item d that replay yields at pos.
ReplayItem(d, bytes, pos, idx, obs) ==
    IF d.status = "eof" THEN [ret |-> "Ok", index |-> idx, obsolete |-> obs]
    ELSE IF d.status = "err" THEN [ret |-> "Serde", index |-> idx, obsolete |-> obs]
    ELSE IF d.cmd.type = "Set"
         THEN ReplayFrom(bytes, d.next, Insert(idx, d.cmd.key, pos),
                         IF d.cmd.key \in DOMAIN idx THEN obs + 1 ELSE obs)
    ELSE IF d.cmd.key \in DOMAIN idx
         THEN ReplayFrom(bytes, d.next, Delete(idx, d.cmd.key), obs + 1)
    ELSE [ret |-> "KeyNotFound", index |-> idx, obsolete |-> obs]

ReplayFrom(bytes, pos, idx, obs) == ReplayItem(Decode(bytes, pos), bytes, pos, idx, obs)

Replay(bytes) == ReplayFrom(bytes, 0, EmptyIndex, 0)

\* should_compact asking for more than the threshold.
should_compact_above(obs) == obs > THRESHOLD
should_compact(obs) == obs >= THRESHOLD

(***************************************************************************)
(* Failures.  A fault names the step of a handler that fails: an I/O error *)
(* returned by that step ("io_...") or the process stopping there          *)
(* ("crash_..."); n is the number of records the copy loop of compaction   *)
(* completed, or the number of bytes of the record an append wrote, before *)
(* the failure.                                                            *)
(***************************************************************************)
NoFault == [kind |-> "none", n |-> 0]
CompactFaultKinds == {"io_create", "io_copy", "io_rename", "io_reopen", "crash_copy"}

\* What a handler leaves behind.
Outcome(ret, idx, obs, lg, cur, cmp, crashed, compacted, faulted) ==
    [ret |-> ret, index |-> idx, obsolete |-> obs, log |-> lg, current |-> cur,
     compact |-> cmp, crashed |-> crashed, compacted |-> compacted, faulted |-> faulted]

\* The orders in which a HashMap may iterate over the keys S.
Orders(S) ==
    {o \in [1..Cardinality(S) -> S] : \A i, j \in 1..Cardinality(S) : i # j => o[i] # o[j]}

\* The loop of KvStore::compact (lib.rs:111-121) over the keys order[i..n]:
\* read the live record in the active log, append a Set of it to the
\* compaction log, remember where it went.
RECURSIVE CopyLive(_, _, _, _, _, _, _)
\* CopyOne keeping the pointer into the old log in the new index.
CopyOneOldPointer(r, order, i, n, src, idx, cbytes, cidx) ==
    IF r.ret # "Ok" THEN [ret |-> r.ret, bytes |-> cbytes, index |-> cidx]
    ELSE IF r.cmd.type # "Set"
         THEN [ret |-> "LogFileCorrupted", bytes |-> cbytes, index |-> cidx]
    ELSE CopyLive(order, i + 1, n, src, idx,
                  cbytes \o Serialize(SetCmd(order[i], r.cmd.value)),
                  Insert(cidx, order[i], idx[order[i]]))

\* CopyOne taking the position after the append, not before.
CopyOnePointerAfter(r, order, i, n, src, idx, cbytes, cidx) ==
    IF r.ret # "Ok" THEN [ret |-> r.ret, bytes |-> cbytes, index |-> cidx]
    ELSE IF r.cmd.type # "Set"
         THEN [ret |-> "LogFileCorrupted", bytes |-> cbytes, index |-> cidx]
    ELSE CopyLive(order, i + 1, n, src, idx,
                  cbytes \o Serialize(SetCmd(order[i], r.cmd.value)),
                  Insert(cidx, order[i],
                         Len(cbytes \o Serialize(SetCmd(order[i], r.cmd.value)))))

\* The body of the loop for key order[i], r being what Log::read returned.
CopyOne(r, order, i, n, src, idx, cbytes, cidx) ==
    IF r.ret # "Ok" THEN [ret |-> r.ret, bytes |-> cbytes, index |-> cidx]
    ELSE IF r.cmd.type # "Set"
         THEN [ret |-> "LogFileCorrupted", bytes |-> cbytes, index |-> cidx]
    ELSE CopyLive(order, i + 1, n, src, idx,
                  cbytes \o Serialize(SetCmd(order[i], r.cmd.value)),
                  Insert(cidx, order[i], Len(cbytes)))

CopyLive(order, i, n, src, idx, cbytes, cidx) ==
    IF i > n THEN [ret |-> "Ok", bytes |-> cbytes, index |-> cidx]
    ELSE CopyOne(LogRead(src, idx[order[i]]), order, i, n, src, idx, cbytes, cidx)

\* KvStore::compact.  compact.log is opened with create(true) and without
\* truncate, so the copy is appended to whatever the file already holds.
\* How many keys the copy loop gets through under fault f.
Copied(order, f) ==
    IF f.kind \in {"io_copy", "crash_copy"} /\ f.n <= Len(order) THEN f.n ELSE Len(order)

\* compact_swap that renames the file and keeps the index of the old log.
compact_swap_keeps_index(c, idx, obs, lg, rd, cur, cmp, order, f) ==
    IF c.ret # "Ok" \/ f.kind # "none"
    THEN Outcome("Io", idx, obs, lg, cur, cmp, FALSE, FALSE, f.kind # "none")
    ELSE Outcome("Ok", idx, 0, LinkedLog, File(c.bytes), NoFile, FALSE, TRUE, FALSE)

\* The handle of the active log after the copy loop read the records of
\* order[1..n] through it (lib.rs:112).
AfterReads(lg, src, idx, order, n) ==
    IF n = 0 THEN lg ELSE SeekRead(lg, src, idx[order[n]])

\* How many reads the copy loop made: all it was to make, one more when the
\* append to compact.log failed behind it, or up to the read that failed.
ReadsDone(c, order, f) ==
    IF c.ret # "Ok" THEN Cardinality(DOMAIN c.index) + 1
    ELSE IF f.kind = "io_copy" /\ f.n < Len(order) THEN f.n + 1
    ELSE Copied(order, f)

\* KvStore::compact after its copy loop returned c (lib.rs:122-128): the
\* rename, the swap of the index, the reopening of the log, the counter.
compact_swap(c, idx, obs, lg, rd, cur, cmp, order, f) ==
    IF f.kind = "io_create"
    THEN Outcome("Io", idx, obs, lg, cur, cmp, FALSE, FALSE, TRUE)
    ELSE IF c.ret # "Ok"
    THEN Outcome(c.ret, idx, obs, rd, cur, File(c.bytes), FALSE, FALSE, FALSE)
    ELSE IF f.kind = "io_copy"
    THEN Outcome("Io", idx, obs, rd, cur, File(c.bytes), FALSE, FALSE, f.n < Len(order))
    ELSE IF f.kind = "crash_copy"
    THEN Outcome("Crash", idx, obs, rd, cur, File(c.bytes), TRUE, FALSE, f.n <= Len(order))
    ELSE IF f.kind = "io_rename"
    THEN Outcome("Io", idx, obs, rd, cur, File(c.bytes), FALSE, FALSE, TRUE)
    ELSE IF f.kind = "io_reopen"
    THEN Outcome("Io", c.index, obs,
                 [linked |-> FALSE, bytes |-> HandleBytes(lg, cur), pos |-> rd.pos],
                 File(c.bytes), NoFile, FALSE, FALSE, TRUE)
    ELSE Outcome("Ok", c.index, 0, LinkedLog, File(c.bytes), NoFile, FALSE, TRUE, FALSE)

\* compact_read: the copy loop returned c; rd is the handle of the active
\* log as the loop's reads left it.
compact_read(c, idx, obs, lg, cur, cmp, order, f) ==
    compact_swap(c, idx, obs, lg,
                 AfterReads(lg, HandleBytes(lg, cur), idx, order, ReadsDone(c, order, f)),
                 cur, cmp, order, f)

compact(idx, obs, lg, cur, cmp, order, f) ==
    compact_read(CopyLive(order, 1, Copied(order, f), HandleBytes(lg, cur), idx,
                          cmp.bytes, EmptyIndex),
                 idx, obs, lg, cur, cmp, order, f)

\* The tail of set and remove (lib.rs:80-83, 93-96) on the state w the
\* call has written: compaction when the counter asks for it.
maybe_compact(w, order, f) ==
    IF should_compact(w.obsolete)
    THEN compact(w.index, w.obsolete, w.log, w.current, w.compact, order, f)
    ELSE w

\* An append that the process did not survive: n bytes of rec were written.
torn_append(a, idx, obs, cmp, rec, n) ==
    Outcome("Crash", idx, obs, a.log, a.current, cmp, TRUE, FALSE, n < Len(rec))

\* set_written counting every set as an obsolete entry.
set_written_always_counts(a, idx, obs, ptr, cmp, key) ==
    Outcome("Ok", Insert(idx, key, ptr), obs + 1,
            a.log, a.current, cmp, FALSE, FALSE, FALSE)

\* set_written keeping the position after the write as the pointer.
set_written_pointer_after(a, idx, obs, ptr, cmp, key) ==
    Outcome("Ok", Insert(idx, key, Len(HandleBytes(a.log, a.current))),
            IF key \in DOMAIN idx THEN obs + 1 ELSE obs,
            a.log, a.current, cmp, FALSE, FALSE, FALSE)

\* KvStore::set up to its compaction check (lib.rs:72-79): the record is
\* appended (a) and the index points at it; an overwrite counts as obsolete.
set_written(a, idx, obs, ptr, cmp, key) ==
    Outcome("Ok", Insert(idx, key, ptr), IF key \in DOMAIN idx THEN obs + 1 ELSE obs,
            a.log, a.current, cmp, FALSE, FALSE, FALSE)

set_state(idx, obs, lg, cur, cmp, key, value) ==
    set_written(AppendBytes(lg, cur, Serialize(SetCmd(key, value))), idx, obs,
                AppendPos(lg, cur), cmp, key)

\* KvStore::set.
set(idx, obs, lg, cur, cmp, key, value, order, f) ==
    IF f.kind = "io_append"
    THEN Outcome("Io", idx, obs, lg, cur, cmp, FALSE, FALSE, TRUE)
    ELSE IF f.kind = "crash_append"
    THEN torn_append(AppendBytes(lg, cur, SubSeq(Serialize(SetCmd(key, value)), 1, f.n)),
                     idx, obs, cmp, Serialize(SetCmd(key, value)), f.n)
    ELSE maybe_compact(set_state(idx, obs, lg, cur, cmp, key, value), order, f)

\* KvStore::remove up to its compaction check (lib.rs:87-92): the key has
\* left the index, the record is appended (a), the counter is one more.
remove_written(a, idx, obs, cmp, key) ==
    Outcome("Ok", Delete(idx, key), obs + 1, a.log, a.current, cmp, FALSE, FALSE, FALSE)

\* remove_state appending the Remove record twice.
remove_state_writes_twice(idx, obs, lg, cur, cmp, key) ==
    remove_written(AppendBytes(lg, cur, Serialize(RemoveCmd(key))
                                        \o Serialize(RemoveCmd(key))),
                   idx, obs, cmp, key)

remove_state(idx, obs, lg, cur, cmp, key) ==
    remove_written(AppendBytes(lg, cur, Serialize(RemoveCmd(key))), idx, obs, cmp, key)

\* remove writing its record before it looks the key up.
remove_append_first(idx, obs, lg, cur, cmp, key, order, f) ==
    IF key \notin DOMAIN idx
    THEN Outcome("KeyNotFound", idx, obs,
                 AppendBytes(lg, cur, Serialize(RemoveCmd(key))).log,
                 AppendBytes(lg, cur, Serialize(RemoveCmd(key))).current,
                 cmp, FALSE, FALSE, FALSE)
    ELSE maybe_compact(remove_state(idx, obs, lg, cur, cmp, key), order, f)

\* KvStore::remove.  The key leaves the index before the record is written.
remove(idx, obs, lg, cur, cmp, key, order, f) ==
    IF key \notin DOMAIN idx
    THEN Outcome("KeyNotFound", idx, obs, lg, cur, cmp, FALSE, FALSE, FALSE)
    ELSE IF f.kind = "io_append"
    THEN Outcome("Io", Delete(idx, key), obs, lg, cur, cmp, FALSE, FALSE, TRUE)
    ELSE IF f.kind = "crash_append"
    THEN torn_append(AppendBytes(lg, cur, SubSeq(Serialize(RemoveCmd(key)), 1, f.n)),
                     idx, obs, cmp, Serialize(RemoveCmd(key)), f.n)
    ELSE maybe_compact(remove_state(idx, obs, lg, cur, cmp, key), order, f)

\* KvStore::open: create current.log when it is missing, replay it, open it.
open_with(r, cur) ==
    [ret |-> r.ret, index |-> r.index, obsolete |-> r.obsolete, current |-> File(cur.bytes)]

open(cur) == open_with(Replay(cur.bytes), cur)

(***************************************************************************)
(* The calls.  Every action is one whole call of the API (or the end of    *)
(* the process), and records the call and its return value in result.      *)
(***************************************************************************)
\* A call and its return; stdout and exit are what a run of the kvs binary
\* printed and its exit status (no lines, no status for a call of the API).
CallOf(op, key, value, ret, some, compacted, stdout, exit) ==
    [op |-> op, key |-> key, value |-> value, ret |-> ret, some |-> some,
     compacted |-> compacted, stdout |-> stdout, exit |-> exit]
Call(op, key, value, ret, some, compacted) ==
    CallOf(op, key, value, ret, some, compacted, <<>>, <<>>)

Init ==
    /\ current_log = NoFile
    /\ compact_log = NoFile
    /\ state = "Closed"
    /\ in_memory_index = EmptyIndex
    /\ log = LinkedLog
    /\ obsolete_entries = 0
    /\ result = Call("init", NoStr, NoStr, "Ok", FALSE, FALSE)
    /\ faults = <<>>

\* The engine value is gone: dropped by its owner, or the process stopped.
Dropped ==
    /\ state' = "Closed"
    /\ in_memory_index' = EmptyIndex
    /\ log' = LinkedLog
    /\ obsolete_entries' = 0

\* The state a handler's outcome leaves.
Apply(o) ==
    /\ current_log' = o.current
    /\ compact_log' = o.compact
    /\ IF o.crashed THEN Dropped
       ELSE /\ state' = "Open"
            /\ in_memory_index' = o.index
            /\ log' = o.log
            /\ obsolete_entries' = o.obsolete

\* The state open's return value o leaves.
Opened(o) ==
    /\ current_log' = o.current
    /\ IF o.ret = "Ok"
       THEN /\ state' = "Open"
            /\ in_memory_index' = o.index
            /\ obsolete_entries' = o.obsolete
            /\ log' = LinkedLog
       ELSE UNCHANGED <<state, in_memory_index, obsolete_entries, log>>
    /\ result' = Call("open", NoStr, NoStr, o.ret, FALSE, FALSE)

\* A call of set or remove returned o; o.faulted says the fault f happened.
Returned(o, op, k, v, f) ==
    /\ o.faulted = (f.kind # "none")
    /\ Apply(o)
    /\ result' = Call(op, k, v, o.ret, FALSE, o.compacted)

Open ==
    /\ state = "Closed"
    /\ Opened(open(current_log))
    /\ UNCHANGED <<compact_log, faults>>

Close ==
    /\ state = "Open"
    /\ Dropped
    /\ result' = Call("close", NoStr, NoStr, "Ok", FALSE, FALSE)
    /\ UNCHANGED <<current_log, compact_log, faults>>

GetCallOf(k, g) == Call("get", k, g.value, g.ret, g.some, FALSE)

GetCall(k) ==
    /\ state = "Open"
    /\ result' = GetCallOf(k, Get(k))
    /\ log' = IF k \in DOMAIN in_memory_index
              THEN SeekRead(log, HandleBytes(log, current_log), in_memory_index[k])
              ELSE log
    /\ UNCHANGED <<current_log, compact_log, state, in_memory_index,
                   obsolete_entries, faults>>

Explored == obsolete_entries < THRESHOLD + MaxOverrun

SetWith(k, v, f) ==
    /\ state = "Open"
    /\ Explored
    /\ \E order \in Orders(DOMAIN in_memory_index \cup {k}) :
         Returned(set(in_memory_index, obsolete_entries, log, current_log,
                      compact_log, k, v, order, f), "set", k, v, f)

RemoveWith(k, f) ==
    /\ state = "Open"
    /\ Explored
    /\ \E order \in Orders(DOMAIN in_memory_index \ {k}) :
         Returned(remove(in_memory_index, obsolete_entries, log, current_log,
                         compact_log, k, order, f), "remove", k, NoStr, f)

SetCall(k, v) == SetWith(k, v, NoFault) /\ UNCHANGED faults
RemoveCall(k) == RemoveWith(k, NoFault) /\ UNCHANGED faults

(***************************************************************************)
(* The kvs binary (src/src/bin/kvs.rs): one run opens the engine on the    *)
(* directory, makes one call and exits, which drops the engine.            *)
(***************************************************************************)
\* println!("Key not found")
KeyNotFoundLine == <<"K", "e", "y", " ", "n", "o", "t", " ", "f", "o", "u", "n", "d">>

\* How a run ends: the lines on stdout, the exit status, the files.
Exit(ret, stdout, status, cur, cmp, compacted) ==
    [ret |-> ret, stdout |-> stdout, exit |-> <<status>>, current |-> cur,
     compact |-> cmp, compacted |-> compacted]

\* main returning Err(e): nothing on stdout, exit status 1.
MainErr(ret, cur, cmp) == Exit(ret, <<>>, 1, cur, cmp, FALSE)

\* Args::Get on what store.get returned (kvs.rs:23-26).
cli_get_print(g, cur, cmp) ==
    IF g.ret # "Ok" THEN MainErr(g.ret, cur, cmp)
    ELSE IF g.some THEN Exit("Ok", <<g.value>>, 0, cur, cmp, FALSE)
    ELSE Exit("Ok", <<KeyNotFoundLine>>, 0, cur, cmp, FALSE)

\* Args::Get (kvs.rs:21-27), o being what KvStore::open returned.
cli_get(o, cmp, key) ==
    IF o.ret # "Ok" THEN MainErr(o.ret, o.current, cmp)
    ELSE cli_get_print(GetOf(o.index, o.current.bytes, key), o.current, cmp)

\* Args::Set on what store.set returned (kvs.rs:30).
cli_set_done(w) ==
    IF w.ret # "Ok" THEN MainErr(w.ret, w.current, w.compact)
    ELSE Exit("Ok", <<>>, 0, w.current, w.compact, w.compacted)

\* Args::Set (kvs.rs:28-31).
cli_set(o, cmp, key, value, order) ==
    IF o.ret # "Ok" THEN MainErr(o.ret, o.current, cmp)
    ELSE cli_set_done(set(o.index, o.obsolete, LinkedLog, o.current, cmp,
                          key, value, order, NoFault))

\* cli_rm_done exiting with status 0 when the key is not found.
cli_rm_done_exit_zero(w) ==
    IF w.ret = "Ok" THEN Exit("Ok", <<>>, 0, w.current, w.compact, w.compacted)
    ELSE IF w.ret = "KeyNotFound"
    THEN Exit("KeyNotFound", <<KeyNotFoundLine>>, 0, w.current, w.compact, FALSE)
    ELSE MainErr(w.ret, w.current, w.compact)

\* Args::Rm on what store.remove returned (kvs.rs:34-41).
cli_rm_done(w) ==
    IF w.ret = "Ok" THEN Exit("Ok", <<>>, 0, w.current, w.compact, w.compacted)
    ELSE IF w.ret = "KeyNotFound"
    THEN Exit("KeyNotFound", <<KeyNotFoundLine>>, 1, w.current, w.compact, FALSE)
    ELSE MainErr(w.ret, w.current, w.compact)

\* Args::Rm (kvs.rs:32-42).
cli_rm(o, cmp, key, order) ==
    IF o.ret # "Ok" THEN MainErr(o.ret, o.current, cmp)
    ELSE cli_rm_done(remove(o.index, o.obsolete, LinkedLog, o.current, cmp,
                            key, order, NoFault))

\* A run of the binary ended as e: the files it leaves, no engine.
Exited(e, op, k, v) ==
    /\ current_log' = e.current
    /\ compact_log' = e.compact
    /\ result' = CallOf(op, k, v, e.ret, FALSE, e.compacted, e.stdout, e.exit)
    /\ UNCHANGED <<state, in_memory_index, log, obsolete_entries, faults>>

\* The keys of the index that open builds from the directory as it is.
OpenedKeys == DOMAIN open(current_log).index

CliGet(k) ==
    /\ state = "Closed"
    /\ Exited(cli_get(open(current_log), compact_log, k), "cli_get", k, NoStr)

CliSet(k, v) ==
    /\ state = "Closed"
    /\ \E order \in Orders(OpenedKeys \cup {k}) :
         Exited(cli_set(open(current_log), compact_log, k, v, order), "cli_set", k, v)

CliRm(k) ==
    /\ state = "Closed"
    /\ \E order \in Orders(OpenedKeys \ {k}) :
         Exited(cli_rm(open(current_log), compact_log, k, order), "cli_rm", k, NoStr)

Next ==
    \/ Open
    \/ Close
    \/ \E k \in Keys : GetCall(k)
    \/ \E k \in Keys, v \in Values : SetCall(k, v)
    \/ \E k \in Keys : RemoveCall(k)
    \/ \E k \in Keys : CliGet(k)
    \/ \E k \in Keys, v \in Values : CliSet(k, v)
    \/ \E k \in Keys : CliRm(k)

\* Runs without failures.
Spec == Init /\ [][Next]_vars

\* Where an append may be cut short: byte counts inside every record.
TornCuts == {5, 20}
Faults ==
    [kind : {"io_append", "io_create", "io_rename", "io_reopen"}, n : {0}]
    \cup [kind : {"io_copy", "crash_copy"}, n : 0..Cardinality(Keys)]
    \cup [kind : {"crash_append"}, n : TornCuts]

SetFault(k, v) ==
    /\ Len(faults) < MaxFaults
    /\ \E f \in Faults : SetWith(k, v, f) /\ faults' = Append(faults, f.kind)

RemoveFault(k) ==
    /\ Len(faults) < MaxFaults
    /\ \E f \in Faults : RemoveWith(k, f) /\ faults' = Append(faults, f.kind)

NextFault ==
    \/ Open
    \/ Close
    \/ \E k \in Keys : GetCall(k)
    \/ \E k \in Keys, v \in Values : SetCall(k, v)
    \/ \E k \in Keys : RemoveCall(k)
    \/ \E k \in Keys, v \in Values : SetFault(k, v)
    \/ \E k \in Keys : RemoveFault(k)

\* Runs of one engine after another on the directory, in which calls may
\* fail and the process may stop.
SpecFault == Init /\ [][NextFault]_vars

(***************************************************************************)
(* Opening a directory whose current.log the engine did not write: any     *)
(* sequence of at most MaxRecords well-formed records (an external edit).  *)
(***************************************************************************)
Commands ==
    {SetCmd(k, v) : k \in Keys, v \in Values} \cup {RemoveCmd(k) : k \in Keys}

\* The files of at most n records.
RECURSIVE LogsOf(_)
LogsOf(n) ==
    IF n = 0 THEN {<<>>}
    ELSE LogsOf(n - 1) \cup {b \o Serialize(c) : b \in LogsOf(n - 1), c \in Commands}

InitReplay ==
    /\ current_log \in {File(b) : b \in LogsOf(MaxRecords)}
    /\ compact_log = NoFile
    /\ state = "Closed"
    /\ in_memory_index = EmptyIndex
    /\ log = LinkedLog
    /\ obsolete_entries = 0
    /\ result = Call("init", NoStr, NoStr, "Ok", FALSE, FALSE)
    /\ faults = <<>>

NextReplay ==
    \/ Open
    \/ Close
    \/ \E k \in Keys : GetCall(k)

\* Opening, reading and closing an engine on any such directory.
SpecReplay == InitReplay /\ [][NextReplay]_vars

(***************************************************************************)
(* Properties.                                                             *)
(***************************************************************************)
Some(v) == [ret |-> "Ok", some |-> TRUE, value |-> v]
None == [ret |-> "Ok", some |-> FALSE, value |-> NoStr]

\* What get(k) returns after the step.
GetNext(k) == GetOf(in_memory_index', HandleBytes(log', current_log'), k)

\* The step is a successful set or remove of key k.
Wrote(k) == result'.op \in {"set", "remove"} /\ result'.key = k /\ result'.ret = "Ok"

\* C1: after a successful set(K,V), get(K) returns Some(V) (also when the
\* set overwrote K or compacted), and whatever get(K) returns stays what it
\* is through every later call on the engine that is not a successful set
\* or remove of K.
C1_Step ==
    \A k \in Keys :
        /\ \A v \in Values :
             (result'.op = "set" /\ result'.key = k /\ result'.value = v
              /\ result'.ret = "Ok") => GetNext(k) = Some(v)
        /\ (state = "Open" /\ state' = "Open" /\ Get(k).some /\ ~Wrote(k))
             => GetNext(k) = Get(k)
\* C1: every step keeps "get(K) = Some(V) after a successful set(K,V), until
\* the next successful set or remove of K".
C1_SetThenGet == [][C1_Step]_vars

\* A set that overwrote its key, compacted, and is read back.
C1_Witness ==
    /\ state = "Open"
    /\ result.op = "set" /\ result.ret = "Ok" /\ result.compacted
    /\ Get(result.key) = Some(result.value)

\* C2: after a successful remove(K) (also one that compacted) K is not in
\* the index and get(K) returns None; an absent key stays absent through
\* every call that is not a set of K; and remove of an absent key fails
\* with KeyNotFound.
C2_Step ==
    \A k \in Keys :
        /\ (result'.op = "remove" /\ result'.key = k /\ result'.ret = "Ok")
             => (k \notin DOMAIN in_memory_index' /\ GetNext(k) = None)
        /\ (state = "Open" /\ state' = "Open" /\ k \notin DOMAIN in_memory_index
            /\ ~(result'.op = "set" /\ result'.key = k))
             => (k \notin DOMAIN in_memory_index' /\ GetNext(k) = None)
        /\ (state = "Open" /\ k \notin DOMAIN in_memory_index
            /\ result'.op = "remove" /\ result'.key = k)
             => result'.ret = "KeyNotFound"
\* C2: every step keeps "K is absent and remove(K) is KeyNotFound after a
\* successful remove(K), until a set of K".
C2_RemoveThenAbsent == [][C2_Step]_vars

\* A remove that compacted, with another key still live.
C2_Witness ==
    /\ state = "Open"
    /\ result.op = "remove" /\ result.ret = "Ok" /\ result.compacted
    /\ result.key \notin DOMAIN in_memory_index
    /\ in_memory_index # EmptyIndex

\* get(k) on the engine that open would return for the files as they are.
ReopenedGet(k) == GetOf(open(current_log).index, current_log.bytes, k)

\* C3: whatever calls a fresh engine has served, compactions included,
\* closing it and opening the directory again succeeds and gives, for every
\* key, the get result the engine gives now.
C3_ReopenSameGets ==
    state = "Open" =>
        /\ open(current_log).ret = "Ok"
        /\ \A k \in Keys : ReopenedGet(k) = Get(k)

\* A reopened engine whose log holds overwritten or removed records, one
\* key live and one absent.
C3_Witness ==
    /\ state = "Open" /\ result.op = "open" /\ result.ret = "Ok"
    /\ obsolete_entries >= 1
    /\ \E k \in Keys : Get(k).some
    /\ \E k \in Keys : Get(k) = None

\* The engine's state at the compaction check of the call that the step
\* is (lib.rs:80 in set, lib.rs:93 in remove), from the state before it.
BeforeCompaction ==
    IF result'.op = "set"
    THEN set_state(in_memory_index, obsolete_entries, log, current_log, compact_log,
                   result'.key, result'.value)
    ELSE remove_state(in_memory_index, obsolete_entries, log, current_log, compact_log,
                      result'.key)
GetIn(w, k) == GetOf(w.index, HandleBytes(w.log, w.current), k)

\* C4: when a set or remove runs compaction, get of every key returns after
\* the compaction what it would have returned right before it (after the
\* call's own append and index update).
C4_Step ==
    (state = "Open" /\ result'.op \in {"set", "remove"} /\ result'.compacted)
        => \A k \in Keys : GetNext(k) = GetIn(BeforeCompaction, k)
\* C4: every compacting step returns the same get results after the
\* compaction as before it.
C4_CompactionNeutral == [][C4_Step]_vars

\* A compaction that copied every key of the model.
C4_Witness ==
    /\ state = "Open" /\ result.compacted
    /\ DOMAIN in_memory_index = Keys
    /\ \A k \in Keys : Get(k).some

\* The offsets at which the records of a file start, decoding from pos on
\* until the end of the file or the first undecodable byte.
RECURSIVE RecordStarts(_, _)
RecordStarts(bytes, pos) ==
    IF Decode(bytes, pos).status = "ok"
    THEN {pos} \cup RecordStarts(bytes, Decode(bytes, pos).next)
    ELSE {}

\* The offset at which decoding a file from pos on stops.
RECURSIVE RecordsEnd(_, _)
RecordsEnd(bytes, pos) ==
    IF Decode(bytes, pos).status = "ok"
    THEN RecordsEnd(bytes, Decode(bytes, pos).next)
    ELSE pos

Pointers(idx) == {idx[k] : k \in DOMAIN idx}
IsSetOf(bytes, ptr, k) ==
    /\ Decode(bytes, ptr).status = "ok"
    /\ Decode(bytes, ptr).cmd.type = "Set"
    /\ Decode(bytes, ptr).cmd.key = k

\* C5: right after a successful compaction current.log holds exactly one
\* record per key of the index, a Set of that key at the key's pointer, and
\* nothing else (compact.log was started empty), and obsolete_entries = 0.
C5_CompactedLogAllLive ==
    (state = "Open" /\ result.compacted) =>
        /\ obsolete_entries = 0
        /\ RecordsEnd(current_log.bytes, 0) = Len(current_log.bytes)
        /\ RecordStarts(current_log.bytes, 0) = Pointers(in_memory_index)
        /\ Cardinality(Pointers(in_memory_index)) = Cardinality(DOMAIN in_memory_index)
        /\ \A k \in DOMAIN in_memory_index :
             IsSetOf(current_log.bytes, in_memory_index[k], k)

\* Every failure so far was an interruption of the copy loop of compaction.
OnlyCopyInterrupted ==
    \A i \in 1..Len(faults) : faults[i] \in {"crash_copy", "io_copy"}

\* C6: after compactions interrupted in their copy loop (a crash or an
\* error), the stale compact.log is ignored: whatever opens, sets, removes
\* and compactions follow, the directory can be opened and the reopened
\* engine returns for every key what the running engine returns (the last
\* successful set not followed by a remove): no record of the stale file
\* is read back from current.log.
C6_StaleCompactLogIgnored ==
    (state = "Open" /\ OnlyCopyInterrupted) =>
        /\ open(current_log).ret = "Ok"
        /\ \A k \in Keys : ReopenedGet(k) = Get(k)

\* C7: when current.log ends in a cut record, open fails with
\* LogFileCorrupted and returns no engine.
C7_TruncatedTailLogFileCorrupted ==
    (result.op = "open"
     /\ RecordsEnd(current_log.bytes, 0) < Len(current_log.bytes)) =>
        (result.ret = "LogFileCorrupted" /\ state = "Closed")

\* C8: remove(K) of a key that is not in the index returns KeyNotFound and
\* changes nothing: no record is appended, the index, the counter and the
\* files are as before, and no compaction runs.
C8_Step ==
    \A k \in Keys :
        (state = "Open" /\ result'.op = "remove" /\ result'.key = k
         /\ k \notin DOMAIN in_memory_index)
            => /\ result'.ret = "KeyNotFound"
               /\ ~result'.compacted
               /\ UNCHANGED <<current_log, compact_log, state, in_memory_index,
                              log, obsolete_entries>>
\* C8: every remove of an absent key is KeyNotFound and changes nothing.
C8_RemoveAbsentChangesNothing == [][C8_Step]_vars

\* A remove that failed on an engine with a live key and obsolete records.
C8_Witness ==
    /\ state = "Open"
    /\ result.op = "remove" /\ result.ret = "KeyNotFound"
    /\ in_memory_index # EmptyIndex
    /\ obsolete_entries >= 1

\* C9: a set or remove of K leaves get of every other key as it was, also
\* when the call compacts.
C9_Step ==
    \A k \in Keys, q \in Keys :
        (q # k /\ state = "Open" /\ result'.op \in {"set", "remove"}
         /\ result'.key = k)
            => GetNext(q) = Get(q)
\* C9: every set or remove step leaves get of the other keys unchanged.
C9_OtherKeysUnchanged == [][C9_Step]_vars

\* A set that compacted while another key held a value.
C9_Witness ==
    /\ state = "Open"
    /\ result.op = "set" /\ result.ret = "Ok" /\ result.compacted
    /\ \E q \in Keys : q # result.key /\ Get(q).some

\* The records of the active log that no index entry points to.
Unpointed ==
    RecordStarts(HandleBytes(log, current_log), 0) \ Pointers(in_memory_index)
\* The Remove records of the active log.
RemoveRecords ==
    {p \in RecordStarts(HandleBytes(log, current_log), 0) :
        Decode(HandleBytes(log, current_log), p).cmd.type = "Remove"}

\* C10 as stated: between operations (of runs in which no call failed)
\* obsolete_entries is the number of records of the active log that no
\* index entry points to.
C10_CounterIsUnpointed ==
    (state = "Open" /\ faults = <<>>) => obsolete_entries = Cardinality(Unpointed)

\* C10 as amended: obsolete_entries is never more than the number of
\* records of the active log that no index entry points to; in runs without
\* failures it is that number less the number of Remove records in the log
\* (a remove adds one to the counter and two unpointed records).
C10_CounterBelowUnpointed ==
    state = "Open" =>
        /\ obsolete_entries <= Cardinality(Unpointed)
        /\ faults = <<>> =>
             obsolete_entries + Cardinality(RemoveRecords) = Cardinality(Unpointed)

\* An engine whose log holds a Remove record and an overwritten Set.
C10_Witness ==
    /\ state = "Open"
    /\ Cardinality(RemoveRecords) >= 1
    /\ obsolete_entries >= 1
    /\ obsolete_entries < Cardinality(Unpointed)

\* What a run of `kvs get k` prints and returns on the files after the step.
CliGetNext(k) == cli_get(open(current_log'), compact_log', k)

\* C11: a run of `kvs rm K` on a directory that opens.  When K is absent it
\* prints the line "Key not found", exits with a nonzero status and writes
\* nothing to current.log (an existing file is left as it is, a missing one
\* is created empty by open).  When K is present it prints nothing, exits
\* with status 0, and a run of `kvs get K` after it prints "Key not found"
\* and exits with status 0.
C11_Step ==
    \A k \in Keys :
        (result'.op = "cli_rm" /\ result'.key = k /\ open(current_log).ret = "Ok") =>
            IF k \notin OpenedKeys
            THEN /\ result'.stdout = <<KeyNotFoundLine>>
                 /\ result'.exit # <<0>>
                 /\ current_log'.bytes = current_log.bytes
                 /\ current_log.exists => current_log' = current_log
            ELSE /\ result'.stdout = <<>>
                 /\ result'.exit = <<0>>
                 /\ CliGetNext(k).stdout = <<KeyNotFoundLine>>
                 /\ CliGetNext(k).exit = <<0>>
\* C11: every run of `kvs rm K` behaves as described for K absent and for K
\* present.
C11_CliRm == [][C11_Step]_vars

\* `kvs rm` of an absent key on a log that holds records.
C11_Witness ==
    /\ result.op = "cli_rm" /\ result.ret = "KeyNotFound"
    /\ result.exit = <<1>>
    /\ current_log.bytes # <<>>

\* The replay of the file the engine's log handle is open on.
ReplayActive == Replay(HandleBytes(log, current_log))

\* C12: between operations, replaying the active log front to back with
\* the rules of open (Set: index[key] = offset of the record, Remove:
\* delete the key) succeeds and yields exactly the in-memory index, key for
\* key and offset for offset: the offsets replay yields are the offsets
\* append returned.
C12_ReplayIsIndex ==
    state = "Open" =>
        /\ ReplayActive.ret = "Ok"
        /\ ReplayActive.index = in_memory_index

\* A log with a Remove record and both keys live at offsets past the start.
C12_Witness ==
    /\ state = "Open"
    /\ result.op \in {"set", "remove"}
    /\ DOMAIN in_memory_index = Keys
    /\ Cardinality(RemoveRecords) >= 1
    /\ \A k \in Keys : in_memory_index[k] > 0

\* C13: in every state between operations, for every key K of the index the
\* pointer index[K] is the start offset of a record of the file the
\* engine's log handle is open on, and that record is a Set whose key is K;
\* set, remove and the index/log swap of compaction preserve this.
C13_PointersReferenceOwnSet ==
    state = "Open" =>
        \A k \in DOMAIN in_memory_index :
            /\ in_memory_index[k] \in RecordStarts(HandleBytes(log, current_log), 0)
            /\ IsSetOf(HandleBytes(log, current_log), in_memory_index[k], k)

\* After a remove: a live key whose record lies behind other records, in a
\* log that also holds a Remove record and an obsolete Set.
C13_Witness ==
    /\ state = "Open"
    /\ result.op = "remove" /\ result.ret = "Ok"
    /\ \E k \in DOMAIN in_memory_index : in_memory_index[k] > 0
    /\ Cardinality(Unpointed) >= 2

\* The step is a call of set or remove that got to its compaction check:
\* the key was there (remove) and the append succeeded.
ReachedCheck ==
    /\ state = "Open"
    /\ result'.op \in {"set", "remove"}
    /\ result'.ret # "KeyNotFound"
    /\ ~(faults' # faults /\ faults'[Len(faults')] \in {"io_append", "crash_append"})

\* C14: compaction is triggered by writes and by the threshold only.  A set
\* or remove that returns Ok has compacted exactly when obsolete_entries
\* was at or above THRESHOLD after its index update and counter increment,
\* and leaves obsolete_entries below THRESHOLD; a call that did not get to
\* the check, or got there with the counter below THRESHOLD, leaves
\* compact.log alone and does not compact; get, open and close never
\* compact and write no byte to either file.
C14_Step ==
    /\ (state = "Open" /\ result'.op \in {"set", "remove"} /\ result'.ret = "Ok") =>
          /\ result'.compacted = (BeforeCompaction.obsolete >= THRESHOLD)
          /\ obsolete_entries' < THRESHOLD
    /\ (state = "Open" /\ result'.op \in {"set", "remove"}
        /\ (result'.compacted \/ compact_log' # compact_log)) =>
          (ReachedCheck /\ BeforeCompaction.obsolete >= THRESHOLD)
    /\ result'.op \in {"get", "open", "close"} =>
          /\ ~result'.compacted
          /\ compact_log' = compact_log
          /\ current_log'.bytes = current_log.bytes
    /\ result'.op = "get" =>
          UNCHANGED <<in_memory_index, obsolete_entries>>
\* C14: every step triggers compaction exactly as the threshold says.
C14_WriteTriggeredCompaction == [][C14_Step]_vars

\* A successful set that stopped one short of the threshold and did not
\* compact.
C14_Witness ==
    /\ state = "Open"
    /\ result.op = "set" /\ result.ret = "Ok" /\ ~result.compacted
    /\ obsolete_entries + 1 = THRESHOLD

\* The step is a set or remove whose compaction failed with an I/O error at
\* one of the given steps (the call returned the error, the engine lives).
CompactionFailedAt(kinds) ==
    /\ state = "Open" /\ state' = "Open"
    /\ result'.op \in {"set", "remove"}
    /\ faults' # faults
    /\ faults'[Len(faults')] \in kinds

\* The index, the log handle and the reads through them after the step are
\* those of the handler's state right before it ran compaction.
ConsistentAsBeforeCompaction ==
    /\ \A k \in DOMAIN in_memory_index' :
          IsSetOf(HandleBytes(log', current_log'), in_memory_index'[k], k)
    /\ \A k \in Keys : GetNext(k) = GetIn(BeforeCompaction, k)

\* C15: when a step of compaction fails (creating compact.log, copying a
\* live record, the rename, reopening current.log after the rename), every
\* index pointer still references the Set record of its key in the file
\* the log handle reads, and every get returns the pre-compaction value.
C15_Step ==
    CompactionFailedAt({"io_create", "io_copy", "io_rename", "io_reopen"})
        => ConsistentAsBeforeCompaction
\* C15: every failed compaction leaves the engine consistent.
C15_FailedCompactionConsistent == [][C15_Step]_vars

\* What the loop of open has built when it gets to byte offset p.
ReplayPrefix(bytes, p) == Replay(SubSeq(bytes, 1, p))

\* The record at p is a Remove of a key that is not in the index built from
\* the records before it.
RemoveOfAbsentAt(bytes, p) ==
    /\ ReplayPrefix(bytes, p).ret = "Ok"
    /\ Decode(bytes, p).cmd.type = "Remove"
    /\ Decode(bytes, p).cmd.key \notin DOMAIN ReplayPrefix(bytes, p).index

\* The rule for the record d at p: pre is what was built before it, post
\* what is built after it.
ReplayRule(d, p, pre, post) ==
    IF d.cmd.type = "Remove" /\ d.cmd.key \notin DOMAIN pre.index
    THEN post.ret = "KeyNotFound"
    ELSE /\ post.ret = "Ok"
         /\ post.obsolete =
              IF d.cmd.key \in DOMAIN pre.index THEN pre.obsolete + 1 ELSE pre.obsolete
         /\ DOMAIN post.index =
              IF d.cmd.type = "Remove" THEN DOMAIN pre.index \ {d.cmd.key}
              ELSE DOMAIN pre.index \cup {d.cmd.key}
         /\ \A x \in DOMAIN post.index :
              post.index[x] = IF x = d.cmd.key THEN p ELSE pre.index[x]

\* C16: in the replay of open, a Remove whose key is not in the index built
\* so far makes open fail with KeyNotFound and return no engine; a Remove
\* whose key is in the index deletes it and adds one to obsolete_entries; a
\* Set of a key in the index overwrites its pointer with the record's
\* offset and adds one to obsolete_entries (a Set of a new key adds none).
C16_ReplayRules ==
    \A p \in RecordStarts(current_log.bytes, 0) :
        /\ ReplayPrefix(current_log.bytes, p).ret = "Ok" =>
              ReplayRule(Decode(current_log.bytes, p), p,
                         ReplayPrefix(current_log.bytes, p),
                         ReplayPrefix(current_log.bytes, Decode(current_log.bytes, p).next))
        /\ RemoveOfAbsentAt(current_log.bytes, p) =>
              /\ open(current_log).ret = "KeyNotFound"
              /\ result.op = "open" => (result.ret = "KeyNotFound" /\ state = "Closed")

\* An open that failed with KeyNotFound at a record behind records that
\* made an entry obsolete.
C16_Witness ==
    /\ result.op = "open" /\ result.ret = "KeyNotFound" /\ state = "Closed"
    /\ \E p \in RecordStarts(current_log.bytes, 0) :
         /\ RemoveOfAbsentAt(current_log.bytes, p)
         /\ ReplayPrefix(current_log.bytes, p).obsolete >= 1

\* C17: get is read-only.  For every key, present or absent, a get leaves
\* the index, both files and obsolete_entries as they are, runs no
\* compaction, keeps the handle on its file, and does not change the offset
\* at which the next append writes, although it moves the handle's file
\* position; and a set writes its record at the end of the file whatever
\* the position was.
C17_Step ==
    /\ (state = "Open" /\ result'.op = "get") =>
          /\ UNCHANGED <<in_memory_index, current_log, compact_log,
                         obsolete_entries, state>>
          /\ ~result'.compacted
          /\ log'.linked = log.linked /\ log'.bytes = log.bytes
          /\ AppendPos(log', current_log') = AppendPos(log, current_log)
    /\ (state = "Open" /\ result'.op = "set" /\ result'.ret = "Ok"
        /\ ~result'.compacted) =>
          /\ in_memory_index'[result'.key] = Len(HandleBytes(log, current_log))
          /\ HandleBytes(log', current_log') =
                HandleBytes(log, current_log)
                  \o Serialize(SetCmd(result'.key, result'.value))
\* C17: every get step changes nothing but the handle's file position, and
\* appends go to the end of the file.
C17_GetReadOnly == [][C17_Step]_vars

\* A get of a present key that left the file position inside the file.
C17_Witness ==
    /\ state = "Open"
    /\ result.op = "get" /\ result.some
    /\ log.pos # <<Len(HandleBytes(log, current_log))>>
    /\ log.pos # <<0>>

\* The step is a call of one of ops whose append to the log failed with an
\* I/O error.
AppendFailedIn(ops) ==
    /\ state = "Open"
    /\ result'.op \in ops
    /\ faults' # faults
    /\ faults'[Len(faults')] = "io_append"

\* The call returned the error and left the engine as it was.
FailedCallChangedNothing ==
    /\ result'.ret = "Io"
    /\ UNCHANGED <<in_memory_index, obsolete_entries, current_log>>
    /\ Replay(HandleBytes(log', current_log')).index = in_memory_index'
    /\ GetNext(result'.key) = Get(result'.key)

\* C18: when the append inside set(K,V) or remove(K) fails, the call
\* returns the error, the index and obsolete_entries are as before the
\* call, the index is still the replay of the unchanged log, and get(K)
\* returns what it returned before.
C18_Step == AppendFailedIn({"set", "remove"}) => FailedCallChangedNothing
\* C18: every set or remove whose append fails changes nothing.
C18_FailedAppendChangesNothing == [][C18_Step]_vars

\* C19: in failure-free runs, compactions included, the obsolete_entries
\* that the replay of open computes from current.log is the in-memory
\* obsolete_entries of the running engine, so a reopen does not change how
\* many writes are left until the next compaction.
C19_ReplayedCounterIsCounter ==
    state = "Open" =>
        /\ open(current_log).ret = "Ok"
        /\ open(current_log).obsolete = obsolete_entries

\* A reopened engine one write short of the threshold, counting a remove.
C19_Witness ==
    /\ state = "Open"
    /\ result.op = "open" /\ result.ret = "Ok"
    /\ obsolete_entries + 1 = THRESHOLD
    /\ Cardinality(RemoveRecords) >= 1

\* C20: a log that only the engine wrote is replayable.  In every state at
\* an operation boundary of a run of successful calls (the engine open, or
\* the process gone), every Remove record of current.log has its key in
\* the index that the records before it build (a Set of the key precedes it
\* that no earlier Remove cancelled), so open does not fail with
\* KeyNotFound.
C20_EngineLogReplayable ==
    /\ \A p \in RecordStarts(current_log.bytes, 0) :
          Decode(current_log.bytes, p).cmd.type = "Remove" =>
              /\ ReplayPrefix(current_log.bytes, p).ret = "Ok"
              /\ Decode(current_log.bytes, p).cmd.key
                    \in DOMAIN ReplayPrefix(current_log.bytes, p).index
    /\ open(current_log).ret # "KeyNotFound"

\* The process is gone and left a log with a Remove record behind which a
\* key is live again.
C20_Witness ==
    /\ state = "Closed" /\ result.op = "close"
    /\ \E p \in RecordStarts(current_log.bytes, 0) :
         /\ Decode(current_log.bytes, p).cmd.type = "Remove"
         /\ Decode(current_log.bytes, p).next < Len(current_log.bytes)
    /\ open(current_log).index # EmptyIndex

====
